---- MODULE Spec2Model ----
(***************************************************************************)
(* AceInsight: the chat/video state wiring of App.tsx, the uploader's      *)
(* processFile and the service module (generateVideoCommentary,            *)
(* sendFollowUpMessage, generateAIImage).                                  *)
(*                                                                         *)
(* Strings are sequences of one-token strings (a token is a character, or  *)
(* a fixed phrase of the source written as one token); CJK characters are  *)
(* written by code point ("U91CD").  An optional value (undefined / null   *)
(* in the source) is the empty sequence, a present value v is <<v>>.       *)
(* Durations are in tenths of a second.                                    *)
(***************************************************************************)
EXTENDS Integers, Sequences, FiniteSets, TLC

VARIABLES
    videoState,          \* App.tsx useState<VideoState>
    videoEl,             \* the <video> element behind videoRef (None: not mounted)
    messages,            \* App.tsx useState<Message[]>
    inputText,           \* App.tsx useState('')
    isProcessing,        \* App.tsx useState(false)
    hasStartedAnalysis,  \* App.tsx useState(false)
    clock,               \* what Date.now() returned last
    uploads,             \* processFile invocations awaiting fileToGenerativePart
    requests,            \* handleStartAnalysis / handleSendMessage invocations awaiting the vendor
    nstarted,            \* number of uploads and requests started so far (names them)
    last,                \* the handler step taken last, with what it passed on
    svc                  \* a direct call of a service function, with its callback log

vars == <<videoState, videoEl, messages, inputText, isProcessing, hasStartedAnalysis,
          clock, uploads, requests, nstarted, last, svc>>

appVars == <<videoState, videoEl, messages, inputText, isProcessing, hasStartedAnalysis,
             clock, uploads, requests, nstarted, last>>

-----------------------------------------------------------------------------
(* Bounds *)

ClockStart == 8        \* Date.now() at the start
MaxTicks == 1          \* clock ticks explored
MaxStarted == 4        \* uploads plus requests started in one behaviour
MaxLiveStarted == 3    \* the same, in the specification with fairness
MaxAppChunks == 2      \* chunks of one analysis stream in the App specification
MaxChunks == 2         \* chunks of one stream in the service specification
MaxDurationSteps == 4  \* durations tried by the service specification
MaxParts == 2          \* parts of a vendor response in the service specification

-----------------------------------------------------------------------------
(* Optional values and strings *)

None == <<>>
Some(v) == <<v>>
IsSome(o) == o # <<>>

\* JavaScript truthiness of a string | null | undefined
TruthyString(o) == o # None /\ o[1] # <<>>

Max(a, b) == IF a >= b THEN a ELSE b

StartsWith(s, p) == Len(s) >= Len(p) /\ SubSeq(s, 1, Len(p)) = p

\* String.prototype.includes
Includes(s, k) == \E i \in 0..(Len(s) - Len(k)) : SubSeq(s, i + 1, i + Len(k)) = k

UpperLetters == <<"A","B","C","D","E","F","G","H","I","J","K","L","M",
                  "N","O","P","Q","R","S","T","U","V","W","X","Y","Z">>
LowerLetters == <<"a","b","c","d","e","f","g","h","i","j","k","l","m",
                  "n","o","p","q","r","s","t","u","v","w","x","y","z">>

LowerOf == [u \in {UpperLetters[i] : i \in 1..Len(UpperLetters)} |->
              LowerLetters[CHOOSE i \in 1..Len(UpperLetters) : UpperLetters[i] = u]]

LowerChar(c) == IF c \in DOMAIN LowerOf THEN LowerOf[c] ELSE c

\* String.prototype.toLowerCase
ToLowerCase(s) == [i \in 1..Len(s) |-> LowerChar(s[i])]

IsSpace(c) == c \in {" ", "\n", "\t"}

RECURSIVE TrimStart(_)
TrimStart(s) == IF s # <<>> /\ IsSpace(Head(s)) THEN TrimStart(Tail(s)) ELSE s

RECURSIVE TrimEnd(_)
TrimEnd(s) ==
    IF s # <<>> /\ IsSpace(s[Len(s)]) THEN TrimEnd(SubSeq(s, 1, Len(s) - 1)) ELSE s

\* String.prototype.trim
Trim(s) == TrimEnd(TrimStart(s))

\* s.split(',')[1]: the text between the first and the second comma
\* (None when s holds no comma).
RECURSIVE UpToComma(_)
UpToComma(s) ==
    IF s = <<>> \/ Head(s) = "," THEN <<>> ELSE <<Head(s)>> \o UpToComma(Tail(s))

RECURSIVE AfterFirstComma(_)
AfterFirstComma(s) ==
    IF s = <<>> THEN None
    ELSE IF Head(s) = "," THEN Some(Tail(s))
    ELSE AfterFirstComma(Tail(s))

SplitCommaSecond(s) ==
    IF AfterFirstComma(s) = None THEN None ELSE Some(UpToComma(AfterFirstComma(s)[1]))

Digits == <<"0","1","2","3","4","5","6","7","8","9">>

\* Number.prototype.toString of a non-negative integer
RECURSIVE NumberToString(_)
NumberToString(n) ==
    IF n < 10 THEN <<Digits[n + 1]>>
    ELSE NumberToString(n \div 10) \o <<Digits[(n % 10) + 1]>>

-----------------------------------------------------------------------------
(* services/geminiService: generateVideoCommentary *)

\* const maxChars = Math.max(20, Math.floor(videoDuration * 4.5)), duration d in tenths
CommentaryMaxChars(d) == Max(20, (d * 45) \div 100)

\* The prompt of generateVideoCommentary: the template's holes.
CommentaryPrompt(style, enableSearch, d) ==
    [durationTenths |-> d, maxChars |-> CommentaryMaxChars(d), style |-> style,
     searchMode |-> enableSearch]

\* The web entries of a chunk's groundingMetadata.groundingChunks, in order.
RECURSIVE WebSources(_)
WebSources(gcs) ==
    IF gcs = <<>> THEN <<>>
    ELSE (IF IsSome(Head(gcs).web)
          THEN <<[title |-> Head(gcs).web[1].title, uri |-> Head(gcs).web[1].uri]>>
          ELSE <<>>) \o WebSources(Tail(gcs))

\* The state of the for-await loop before the first chunk.
StreamStart == [fullText |-> <<>>, groundingSources |-> <<>>]

\* Faulty variant: = in place of +=.
AppendText_Assign(fullText, text) == IF TruthyString(text) THEN text[1] ELSE fullText

\* if (text) fullText += text
AppendText(fullText, text) == IF TruthyString(text) THEN fullText \o text[1] ELSE fullText

\* One iteration of the for-await loop, up to the onStream call.
StreamStep(st, chunk) ==
    [fullText |-> AppendText(st.fullText, chunk.text),
     groundingSources |->
        IF IsSome(chunk.groundingChunks)
        THEN st.groundingSources \o WebSources(chunk.groundingChunks[1])
        ELSE st.groundingSources]

\* Array.from(new Map(list.map(item => [item.uri, item])).values()):
\* one entry per uri, at the place of the uri's first entry, holding its last entry.
LastWithUri(list, uri) ==
    list[CHOOSE i \in 1..Len(list) :
            /\ list[i].uri = uri
            /\ \A j \in (i + 1)..Len(list) : list[j].uri # uri]

RECURSIVE FirstUris(_, _)
FirstUris(list, seen) ==
    IF list = <<>> THEN <<>>
    ELSE IF Head(list).uri \in seen THEN FirstUris(Tail(list), seen)
    ELSE <<Head(list).uri>> \o FirstUris(Tail(list), seen \cup {Head(list).uri})

\* Faulty variant: the accumulated list is passed on as it is.
UniqueSources_AsIs(list) == list

UniqueSources(list) ==
    [i \in 1..Len(FirstUris(list, {})) |-> LastWithUri(list, FirstUris(list, {})[i])]

\* The arguments of onStream(fullText, uniqueSources.length > 0 ? uniqueSources : undefined)
OnStreamArgs(st) ==
    [text |-> st.fullText,
     groundingSources |->
        IF Len(UniqueSources(st.groundingSources)) > 0
        THEN Some(UniqueSources(st.groundingSources))
        ELSE None]

-----------------------------------------------------------------------------
(* services/geminiService: sendFollowUpMessage *)

\* Faulty variant: another speaking rate than generateVideoCommentary's.
FollowUpMaxChars_Rate4(d) == Max(20, (d * 40) \div 100)

\* const maxChars = Math.max(20, Math.floor(videoDuration * 4.5)), duration d in tenths
FollowUpMaxChars(d) == Max(20, (d * 45) \div 100)

ReAnalysisKeywords ==
    << <<"U91CD","U65B0","U5206","U6790">>,
       <<"U518D","U770B","U4E00","U904D">>,
       <<"U91CD","U770B">>,
       <<"U518D","U5206","U6790">>,
       <<"r","e","-","a","n","a","l","y","z","e">>,
       <<"a","n","a","l","y","z","e"," ","a","g","a","i","n">>,
       <<"l","o","o","k"," ","a","g","a","i","n">> >>

\* Faulty variant: the message is matched as typed, not lower-cased.
ShouldReAnalyze_CaseSensitive(newMessage) ==
    \E k \in 1..Len(ReAnalysisKeywords) : Includes(newMessage, ReAnalysisKeywords[k])

\* reAnalysisKeywords.some(keyword => newMessage.toLowerCase().includes(keyword))
ShouldReAnalyze(newMessage) ==
    LET lowered == ToLowerCase(newMessage)
    IN  \E k \in 1..Len(ReAnalysisKeywords) : Includes(lowered, ReAnalysisKeywords[k])

\* history.filter(h => h.role !== 'system').map(h => `${h.role}: ${h.text}`).join('\n')
RECURSIVE HistoryText(_)
HistoryText(history) ==
    IF history = <<>> THEN <<>>
    ELSE IF Head(history).role = "system" THEN HistoryText(Tail(history))
    ELSE <<Head(history).role, ": ">> \o Head(history).text
         \o (IF \E i \in 1..Len(Tail(history)) : Tail(history)[i].role # "system"
             THEN <<"\n">> ELSE <<>>)
         \o HistoryText(Tail(history))

\* The context prompt: the template's holes and the task block chosen.
ContextPrompt(history, newMessage, d) ==
    [history |-> HistoryText(history), instruction |-> newMessage,
     durationTenths |-> d, maxChars |-> FollowUpMaxChars(d),
     task |-> IF ShouldReAnalyze(newMessage) THEN "reanalyze" ELSE "adjust"]

\* if (shouldReAnalyze && base64VideoData) parts.push({ inlineData })
VideoParts(newMessage, base64VideoData, mimeType) ==
    IF ShouldReAnalyze(newMessage) /\ TruthyString(base64VideoData)
    THEN <<[inlineData |-> [mimeType |-> mimeType, data |-> base64VideoData[1]]]>>
    ELSE <<>>

\* The parts of the request: the video when re-analysing, then the context prompt.
FollowUpParts(history, newMessage, base64VideoData, mimeType, d) ==
    VideoParts(newMessage, base64VideoData, mimeType)
        \o <<[text |-> ContextPrompt(history, newMessage, d)]>>

\* The vendor SDK's response.functionCalls: the function calls of all parts of the
\* first candidate, undefined when there is none.
RECURSIVE PartFunctionCalls(_)
PartFunctionCalls(parts) ==
    IF parts = <<>> THEN <<>>
    ELSE Head(parts).functionCall \o PartFunctionCalls(Tail(parts))

ResponseFunctionCalls(response) ==
    IF PartFunctionCalls(response.parts) = <<>> THEN None
    ELSE Some(PartFunctionCalls(response.parts))

\* parts?.[0]?.functionCall ? [parts[0].functionCall] : response.functionCalls
FunctionCalls(response) ==
    IF response.parts # <<>> /\ IsSome(response.parts[1].functionCall)
    THEN Some(<<response.parts[1].functionCall[1]>>)
    ELSE ResponseFunctionCalls(response)

\* functionCalls.find(fc => fc.name === 'generateThumbnail')
FindThumbnail(calls) ==
    IF \E i \in 1..Len(calls) : calls[i].name = "generateThumbnail"
    THEN Some(calls[CHOOSE i \in 1..Len(calls) :
                    /\ calls[i].name = "generateThumbnail"
                    /\ \A j \in 1..(i - 1) : calls[j].name # "generateThumbnail"])
    ELSE None

ThumbnailCall(response) ==
    IF IsSome(FunctionCalls(response)) /\ Len(FunctionCalls(response)[1]) > 0
       /\ IsSome(FindThumbnail(FunctionCalls(response)[1]))
    THEN Some([visualPrompt |-> FindThumbnail(FunctionCalls(response)[1])[1].args.visualPrompt])
    ELSE None

\* The vendor SDK's response.text: the texts of the parts, joined.
RECURSIVE ResponseText(_)
ResponseText(parts) ==
    IF parts = <<>> THEN <<>>
    ELSE (IF IsSome(Head(parts).text) THEN Head(parts).text[1] ELSE <<>>)
         \o ResponseText(Tail(parts))

DesigningCoverText == <<"DESIGNING_COVER_TEXT">>
NoAnswerText == <<"NO_ANSWER_TEXT">>

\* The value sendFollowUpMessage resolves to.
FollowUpResult(response) ==
    [text |-> IF ResponseText(response.parts) # <<>> THEN ResponseText(response.parts)
              ELSE IF IsSome(ThumbnailCall(response)) THEN DesigningCoverText
              ELSE NoAnswerText,
     groundingSources |-> IF IsSome(response.groundingChunks)
                          THEN WebSources(response.groundingChunks[1]) ELSE <<>>,
     thumbnailCall |-> ThumbnailCall(response)]

-----------------------------------------------------------------------------
(* services/geminiService: generateAIImage, fileToGenerativePart *)

\* The request of generateAIImage.
ImageRequest(base64Frame, promptText) ==
    <<[inlineData |-> [mimeType |-> <<"image/jpeg">>, data |-> base64Frame]],
      [text |-> <<"Generate a high-quality vertical tennis video cover. ">> \o promptText]>>

\* The first part with inlineData as a data URL; None: "No image generated" is thrown.
ImageResult(parts) ==
    IF \E i \in 1..Len(parts) : IsSome(parts[i].inlineData)
    THEN Some(<<"data:image/png;base64", ",">>
              \o parts[CHOOSE i \in 1..Len(parts) :
                          /\ IsSome(parts[i].inlineData)
                          /\ \A j \in 1..(i - 1) : ~IsSome(parts[j].inlineData)].inlineData[1])
    ELSE None

\* FileReader.readAsDataURL(file)
DataUrl(file) == <<"data:">> \o file.type \o <<";base64", ",">> \o file.content

\* fileToGenerativePart: base64String.split(',')[1]
FileToGenerativePart(file) == SplitCommaSecond(DataUrl(file))

-----------------------------------------------------------------------------
(* components/VideoUploader: processFile; the files a user can offer *)

VideoPrefix == <<"v","i","d","e","o","/">>
VideoMp4 == VideoPrefix \o <<"m","p","4">>
VideoWebm == VideoPrefix \o <<"w","e","b","m">>
ImagePng == <<"i","m","a","g","e","/","p","n","g">>

\* 20 * 1024 * 1024
MaxVideoBytes == 20 * 1024 * 1024

\* file.type.startsWith('video/')
IsVideoType(file) == StartsWith(file.type, VideoPrefix)

\* Faulty variant: the size check is missing.
WithinSize_Unchecked(file) == TRUE

\* !(file.size > 20 * 1024 * 1024)
WithinSize(file) == ~(file.size > MaxVideoBytes)

\* processFile goes on to read the file
PassesValidation(file) == IsVideoType(file) /\ WithinSize(file)

\* duration: what the <video> element reports once the metadata is loaded (None: NaN,
\* the element never gets ready); frame: the JPEG the canvas yields for the element.
Files ==
    { [name |-> "a.webm", type |-> VideoWebm, size |-> MaxVideoBytes, content |-> <<"QUJD">>,
       duration |-> Some(100)],
      [name |-> "empty.mp4", type |-> VideoMp4, size |-> 0, content |-> <<>>,
       duration |-> None],
      [name |-> "big.mp4", type |-> VideoMp4, size |-> MaxVideoBytes + 1,
       content |-> <<"R0hJ">>, duration |-> Some(100)],
      [name |-> "shot.png", type |-> ImagePng, size |-> 1024, content |-> <<"iVBO">>,
       duration |-> None] }

\* URL.createObjectURL(file): a fresh URL per call
CreateObjectURL(uid) == <<"blob:">> \o NumberToString(uid)

\* The VideoState processFile hands to onVideoSelected when the read gave base64.
SelectedState(file, base64, uid) ==
    [file |-> Some(file), previewUrl |-> Some(CreateObjectURL(uid)),
     base64Data |-> base64, mimeType |-> file.type]

-----------------------------------------------------------------------------
(* App.tsx: state and helpers *)

NoVideo == [file |-> None, previewUrl |-> None, base64Data |-> None, mimeType |-> <<>>]

AnalysisErrorText == <<"ANALYSIS_ERROR_TEXT">>
ConnectionErrorText == <<"CONNECTION_ERROR_TEXT">>
ImageFailedNote == <<"\n", "\n", "(IMAGE_FAILED_NOTE)">>
NoFrameNote == <<"\n", "\n", "(NO_FRAME_NOTE)">>

\* A freshly mounted <video key={previewUrl}>: no metadata yet.
MountedVideo(file) == Some([file |-> file, ready |-> FALSE])

\* videoRef.current?.duration || 0
CurrentDuration(el) ==
    IF el = None THEN 0
    ELSE IF ~el[1].ready \/ el[1].file.duration = None THEN 0
    ELSE el[1].file.duration[1]

\* canvas.toDataURL('image/jpeg', 0.9): "data:," for the 0 x 0 canvas of a video
\* that is not ready
CanvasDataUrl(v) ==
    IF v.ready THEN <<"data:image/jpeg;base64", ",", "FRAME:", v.file.name>>
    ELSE <<"data:", ",">>

\* captureCurrentFrame
CaptureCurrentFrame(el) ==
    IF el = None THEN None ELSE SplitCommaSecond(CanvasDataUrl(el[1]))

\* The placeholder both handlers append.
Placeholder(id) ==
    [id |-> id, role |-> "model", text |-> <<>>, isThinking |-> Some(TRUE),
     groundingSources |-> None, thumbnailUrl |-> None]

UserMessage(id, text) ==
    [id |-> id, role |-> "user", text |-> text, isThinking |-> None,
     groundingSources |-> None, thumbnailUrl |-> None]

\* { ...msg, ...patch }
Spread(msg, patch) ==
    [f \in DOMAIN msg |-> IF f \in DOMAIN patch THEN patch[f] ELSE msg[f]]

\* Faulty variant: the update is applied without comparing ids.
UpdateMessage_AnyId(prev, id, patch) ==
    [i \in 1..Len(prev) |-> Spread(prev[i], patch)]

\* Faulty variant: filter in place of map, the other messages are dropped.
UpdateMessage_Filter(prev, id, patch) ==
    [i \in 1..Len(SelectSeq(prev, LAMBDA m : m.id = id)) |->
        Spread(SelectSeq(prev, LAMBDA m : m.id = id)[i], patch)]

\* Faulty variant: a message that is no longer in the list is put back.
UpdateMessage_Upsert(prev, id, patch) ==
    IF \E i \in 1..Len(prev) : prev[i].id = id
    THEN [i \in 1..Len(prev) |-> IF prev[i].id = id THEN Spread(prev[i], patch) ELSE prev[i]]
    ELSE Append(prev, Spread(Placeholder(id), patch))

\* prev.map(msg => msg.id === id ? { ...msg, ...patch } : msg)
UpdateMessage(prev, id, patch) ==
    [i \in 1..Len(prev) |-> IF prev[i].id = id THEN Spread(prev[i], patch) ELSE prev[i]]

\* The patch of the analysis' stream callback.
StreamPatch(args) ==
    [text |-> args.text, isThinking |-> Some(FALSE), groundingSources |-> args.groundingSources]

\* Faulty variant: the catch block only clears the spinner.
ErrorPatch_KeepText(text) == [isThinking |-> Some(FALSE)]

\* The patch of either catch block.
ErrorPatch(text) == [text |-> text, isThinking |-> Some(FALSE)]

\* Faulty variant: the generated image is not put into the message.
ReplyPatch_NoThumbnail(finalBotText, sources, thumbnailUrl) ==
    [text |-> finalBotText, isThinking |-> Some(FALSE), groundingSources |-> Some(sources)]

\* The patch at the end of a follow-up turn.
ReplyPatch(finalBotText, sources, thumbnailUrl) ==
    [text |-> finalBotText, isThinking |-> Some(FALSE),
     groundingSources |-> Some(sources), thumbnailUrl |-> thumbnailUrl]

-----------------------------------------------------------------------------
(* What the user types and the vendor answers in the App specification *)

UserInputs ==
    { <<" ">>, <<"L","o","o","k"," ","a","g","a","i","n">> }

WebChunk(title, uri) == [web |-> Some([title |-> title, uri |-> uri])]

AppChunks ==
    { [text |-> Some(<<"A">>), groundingChunks |-> None],
      [text |-> None, groundingChunks |-> Some(<<WebChunk("t1", "u1")>>)] }

TextPart(text) == [text |-> Some(text), functionCall |-> None]
CallPart(name, prompt) ==
    [text |-> None,
     functionCall |-> Some([name |-> name, args |-> [visualPrompt |-> prompt]])]

AppResponses ==
    { [parts |-> <<TextPart(<<"R">>)>>, groundingChunks |-> None],
      [parts |-> <<CallPart("generateThumbnail", <<"P">>)>>, groundingChunks |-> None] }

AppImageResponses ==
    { <<[inlineData |-> Some(<<"IMG">>)]>>, <<[inlineData |-> None]>> }

-----------------------------------------------------------------------------
(* App.tsx and VideoUploader.tsx: the handlers *)

\* No service function has been called directly.
NoCall == [prev |-> None, call |-> None]

Init ==
    /\ videoState = NoVideo
    /\ videoEl = None
    /\ messages = <<>>
    /\ inputText = <<>>
    /\ isProcessing = FALSE
    /\ hasStartedAnalysis = FALSE
    /\ clock = ClockStart
    /\ uploads = {}
    /\ requests = {}
    /\ nstarted = 0
    /\ last = [op |-> "init"]
    /\ svc = NoCall

\* Date.now() when dt milliseconds have passed since it was read last.
DateNow(dt) == clock + dt

\* The milliseconds that may have passed between two reads of the clock.
Elapsed == {dt \in {0, 1} : clock + dt <= ClockStart + MaxTicks}

\* handleFileChange / handleDrop -> processFile, up to the await; the drop zone is
\* rendered only while there is no preview.
ProcessFile(file) ==
    /\ videoState.previewUrl = None
    /\ nstarted < MaxStarted
    /\ nstarted' = nstarted + 1
    /\ uploads' = IF PassesValidation(file)
                  THEN uploads \cup {[uid |-> nstarted + 1, file |-> file]}
                  ELSE uploads
    /\ last' = [op |-> "processFile", file |-> file.name,
                accepted |-> PassesValidation(file)]
    /\ UNCHANGED <<videoState, videoEl, messages, inputText, isProcessing,
                   hasStartedAnalysis, clock, requests, svc>>

\* handleVideoSelected
HandleVideoSelected(newState) ==
    /\ videoState' = newState
    /\ hasStartedAnalysis' = FALSE
    /\ messages' = <<>>

\* processFile after the await: fileToGenerativePart resolved.
ReadDone(u) ==
    /\ u \in uploads
    /\ uploads' = uploads \ {u}
    /\ HandleVideoSelected(SelectedState(u.file, FileToGenerativePart(u.file), u.uid))
    /\ videoEl' = MountedVideo(u.file)
    /\ last' = [op |-> "videoSelected", file |-> u.file.name, uid |-> u.uid]
    /\ UNCHANGED <<inputText, isProcessing, clock, requests, nstarted, svc>>

\* processFile after the await: reader.onerror rejected; the catch block alerts.
ReadFails(u) ==
    /\ u \in uploads
    /\ uploads' = uploads \ {u}
    /\ last' = [op |-> "readFailed", file |-> u.file.name]
    /\ UNCHANGED <<videoState, videoEl, messages, inputText, isProcessing,
                   hasStartedAnalysis, clock, requests, nstarted, svc>>

\* Faulty variant: the reset also takes the busy flag back.
HandleClearVideo_StopsProcessing ==
    /\ videoState.previewUrl # None \/ hasStartedAnalysis
    /\ videoState' = NoVideo
    /\ messages' = <<>>
    /\ hasStartedAnalysis' = FALSE
    /\ isProcessing' = FALSE
    /\ videoEl' = None
    /\ last' = [op |-> "clearVideo"]
    /\ UNCHANGED <<inputText, clock, uploads, requests, nstarted, svc>>

\* handleClearVideo: the X on the preview, or the reset button once analysis started.
HandleClearVideo ==
    /\ videoState.previewUrl # None \/ hasStartedAnalysis
    /\ videoState' = NoVideo
    /\ messages' = <<>>
    /\ hasStartedAnalysis' = FALSE
    /\ videoEl' = None
    /\ last' = [op |-> "clearVideo"]
    /\ UNCHANGED <<inputText, isProcessing, clock, uploads, requests, nstarted, svc>>

\* The mounted <video> has loaded its metadata and first frame.
VideoReady ==
    /\ videoEl # None
    /\ ~videoEl[1].ready
    /\ videoEl[1].file.duration # None
    /\ videoEl' = Some([videoEl[1] EXCEPT !.ready = TRUE])
    /\ last' = [op |-> "videoReady"]
    /\ UNCHANGED <<videoState, messages, inputText, isProcessing, hasStartedAnalysis,
                   clock, uploads, requests, nstarted, svc>>

\* onChange of the chat input (disabled={!hasStartedAnalysis || isProcessing})
SetInputText(t) ==
    /\ hasStartedAnalysis /\ ~isProcessing
    /\ inputText # t
    /\ inputText' = t
    /\ last' = [op |-> "input"]
    /\ UNCHANGED <<videoState, videoEl, messages, isProcessing, hasStartedAnalysis,
                   clock, uploads, requests, nstarted, svc>>

\* handleStartAnalysis up to the await; the button is rendered while
\* !hasStartedAnalysis && videoState.file, and disabled while isProcessing.
HandleStartAnalysis(dt) ==
    /\ ~hasStartedAnalysis /\ videoState.file # None /\ ~isProcessing
    /\ nstarted < MaxStarted
    /\ IF ~TruthyString(videoState.base64Data) \/ videoState.mimeType = <<>>
       THEN /\ dt = 0
            /\ last' = [op |-> "startAnalysis", started |-> FALSE]
            /\ UNCHANGED <<messages, isProcessing, hasStartedAnalysis, requests, nstarted,
                           clock>>
       ELSE /\ isProcessing' = TRUE
            /\ hasStartedAnalysis' = TRUE
            /\ clock' = DateNow(dt)
            /\ messages' = Append(messages, Placeholder(NumberToString(DateNow(dt))))
            /\ nstarted' = nstarted + 1
            /\ requests' = requests \cup
                 {[rid |-> nstarted + 1, kind |-> "analysis",
                   msgId |-> NumberToString(DateNow(dt)),
                   prompt |-> CommentaryPrompt("style", FALSE, CurrentDuration(videoEl)),
                   stream |-> StreamStart, nchunks |-> 0]}
            /\ last' = [op |-> "startAnalysis", started |-> TRUE,
                        msgId |-> NumberToString(DateNow(dt))]
    /\ UNCHANGED <<videoState, videoEl, inputText, uploads, svc>>

\* One chunk of the analysis stream arrives: the loop body and the onStream callback.
StreamChunk(r, chunk) ==
    /\ r \in requests /\ r.kind = "analysis"
    /\ r.nchunks < MaxAppChunks
    /\ requests' = (requests \ {r}) \cup
         {[r EXCEPT !.stream = StreamStep(r.stream, chunk), !.nchunks = r.nchunks + 1]}
    /\ messages' = UpdateMessage(messages, r.msgId,
                                 StreamPatch(OnStreamArgs(StreamStep(r.stream, chunk))))
    /\ last' = [op |-> "stream", msgId |-> r.msgId]
    /\ UNCHANGED <<videoState, videoEl, inputText, isProcessing, hasStartedAnalysis,
                   clock, uploads, nstarted, svc>>

\* The stream ends: generateVideoCommentary returns, then the finally block.
StreamEnd(r) ==
    /\ r \in requests /\ r.kind = "analysis"
    /\ requests' = requests \ {r}
    /\ isProcessing' = FALSE
    /\ last' = [op |-> "analysisDone", msgId |-> r.msgId]
    /\ UNCHANGED <<videoState, videoEl, messages, inputText, hasStartedAnalysis,
                   clock, uploads, nstarted, svc>>

\* generateContentStream or the stream throws: the catch block, then finally.
StreamThrows(r) ==
    /\ r \in requests /\ r.kind = "analysis"
    /\ requests' = requests \ {r}
    /\ messages' = UpdateMessage(messages, r.msgId, ErrorPatch(AnalysisErrorText))
    /\ isProcessing' = FALSE
    /\ last' = [op |-> "analysisError", msgId |-> r.msgId, relayed |-> r.nchunks]
    /\ UNCHANGED <<videoState, videoEl, inputText, hasStartedAnalysis,
                   clock, uploads, nstarted, svc>>

\* handleSendMessage up to the await (the send button, or Enter in the chat input,
\* which is disabled={!hasStartedAnalysis || isProcessing}); the clock is read
\* twice, dt1 after the last read and dt2 after that.
HandleSendMessage(dt1, dt2) ==
    /\ hasStartedAnalysis /\ ~isProcessing
    /\ nstarted < MaxStarted
    /\ DateNow(dt1 + dt2) <= ClockStart + MaxTicks
    /\ IF Trim(inputText) = <<>> \/ isProcessing
       THEN /\ dt1 = 0 /\ dt2 = 0
            /\ last' = [op |-> "sendMessage", sent |-> FALSE]
            /\ UNCHANGED <<messages, inputText, isProcessing, requests, nstarted, clock>>
       ELSE /\ messages' = Append(Append(messages,
                                UserMessage(NumberToString(DateNow(dt1)), inputText)),
                                Placeholder(NumberToString(DateNow(dt1 + dt2) + 1)))
            /\ inputText' = <<>>
            /\ isProcessing' = TRUE
            /\ clock' = DateNow(dt1 + dt2)
            /\ nstarted' = nstarted + 1
            /\ requests' = requests \cup
                 {[rid |-> nstarted + 1, kind |-> "followup",
                   msgId |-> NumberToString(DateNow(dt1 + dt2) + 1), pc |-> "reply",
                   parts |-> FollowUpParts(messages, inputText, videoState.base64Data,
                                           videoState.mimeType, CurrentDuration(videoEl)),
                   result |-> None, imageCalls |-> 0, imageArgs |-> None]}
            /\ last' = [op |-> "sendMessage", sent |-> TRUE,
                        userId |-> NumberToString(DateNow(dt1)),
                        msgId |-> NumberToString(DateNow(dt1 + dt2) + 1)]
    /\ UNCHANGED <<videoState, videoEl, hasStartedAnalysis, uploads, svc>>

\* The end of the try block of handleSendMessage and its finally block.
FinishFollowUp(r, result, finalBotText, thumbnailUrl) ==
    /\ requests' = requests \ {r}
    /\ messages' = UpdateMessage(messages, r.msgId,
                       ReplyPatch(finalBotText, result.groundingSources, thumbnailUrl))
    /\ isProcessing' = FALSE
    /\ last' = [op |-> "followUpDone", msgId |-> r.msgId, text |-> finalBotText,
                reply |-> result.text,
                thumbnailCall |-> result.thumbnailCall, imageCalls |-> r.imageCalls,
                imageResult |-> thumbnailUrl]

\* sendFollowUpMessage resolves: the tool-call check, the frame capture and either
\* the generateAIImage call or the end of the turn.
ReplyArrives(r, response) ==
    /\ r \in requests /\ r.kind = "followup" /\ r.pc = "reply"
    /\ IF IsSome(FollowUpResult(response).thumbnailCall)
       THEN IF TruthyString(CaptureCurrentFrame(videoEl))
            THEN /\ requests' = (requests \ {r}) \cup
                       {[r EXCEPT !.pc = "image",
                                  !.result = Some(FollowUpResult(response)),
                                  !.imageCalls = r.imageCalls + 1,
                                  !.imageArgs =
                                     Some(ImageRequest(
                                        CaptureCurrentFrame(videoEl)[1],
                                        FollowUpResult(response).thumbnailCall[1].visualPrompt))]}
                 /\ last' = [op |-> "imageCall", msgId |-> r.msgId]
                 /\ UNCHANGED <<messages, isProcessing>>
            ELSE FinishFollowUp(r, FollowUpResult(response),
                                FollowUpResult(response).text \o NoFrameNote, None)
       ELSE FinishFollowUp(r, FollowUpResult(response), FollowUpResult(response).text,
                           None)
    /\ UNCHANGED <<videoState, videoEl, inputText, hasStartedAnalysis, clock, uploads,
                   nstarted, svc>>

\* Faulty variant: the busy flag is taken back at the end of the try block only,
\* not in a finally block.
ReplyThrows_NoFinally(r) ==
    /\ r \in requests /\ r.kind = "followup" /\ r.pc = "reply"
    /\ requests' = requests \ {r}
    /\ messages' = UpdateMessage(messages, r.msgId, ErrorPatch(ConnectionErrorText))
    /\ last' = [op |-> "followUpError", msgId |-> r.msgId]
    /\ UNCHANGED <<videoState, videoEl, inputText, isProcessing, hasStartedAnalysis,
                   clock, uploads, nstarted, svc>>

\* sendFollowUpMessage rejects: the outer catch block, then finally.
ReplyThrows(r) ==
    /\ r \in requests /\ r.kind = "followup" /\ r.pc = "reply"
    /\ requests' = requests \ {r}
    /\ messages' = UpdateMessage(messages, r.msgId, ErrorPatch(ConnectionErrorText))
    /\ isProcessing' = FALSE
    /\ last' = [op |-> "followUpError", msgId |-> r.msgId]
    /\ UNCHANGED <<videoState, videoEl, inputText, hasStartedAnalysis, clock, uploads,
                   nstarted, svc>>

\* generateAIImage's vendor call resolves: an image part is returned as a data URL,
\* a response without one throws into the inner catch block.
ImageArrives(r, parts) ==
    /\ r \in requests /\ r.kind = "followup" /\ r.pc = "image"
    /\ IF IsSome(ImageResult(parts))
       THEN FinishFollowUp(r, r.result[1], r.result[1].text, ImageResult(parts))
       ELSE FinishFollowUp(r, r.result[1], r.result[1].text \o ImageFailedNote, None)
    /\ UNCHANGED <<videoState, videoEl, inputText, hasStartedAnalysis, clock, uploads,
                   nstarted, svc>>

\* Faulty variant: the image call is not wrapped in a try of its own, its error
\* reaches the outer catch block.
ImageThrows_Escapes(r) ==
    /\ r \in requests /\ r.kind = "followup" /\ r.pc = "image"
    /\ requests' = requests \ {r}
    /\ messages' = UpdateMessage(messages, r.msgId, ErrorPatch(ConnectionErrorText))
    /\ isProcessing' = FALSE
    /\ last' = [op |-> "followUpError", msgId |-> r.msgId]
    /\ UNCHANGED <<videoState, videoEl, inputText, hasStartedAnalysis, clock, uploads,
                   nstarted, svc>>

\* generateAIImage's vendor call rejects: rethrown into the inner catch block.
ImageThrows(r) ==
    /\ r \in requests /\ r.kind = "followup" /\ r.pc = "image"
    /\ FinishFollowUp(r, r.result[1], r.result[1].text \o ImageFailedNote, None)
    /\ UNCHANGED <<videoState, videoEl, inputText, hasStartedAnalysis, clock, uploads,
                   nstarted, svc>>

Next ==
    \/ \E file \in Files : ProcessFile(file)
    \/ \E u \in uploads : ReadDone(u)
    \/ \E u \in uploads : ReadFails(u)
    \/ HandleClearVideo
    \/ VideoReady
    \/ \E t \in UserInputs : SetInputText(t)
    \/ \E dt \in Elapsed : HandleStartAnalysis(dt)
    \/ \E r \in requests, chunk \in AppChunks : StreamChunk(r, chunk)
    \/ \E r \in requests : StreamEnd(r)
    \/ \E r \in requests : StreamThrows(r)
    \/ \E dt1 \in Elapsed, dt2 \in {0, 1} : HandleSendMessage(dt1, dt2)
    \/ \E r \in requests, response \in AppResponses : ReplyArrives(r, response)
    \/ \E r \in requests : ReplyThrows(r)
    \/ \E r \in requests, parts \in AppImageResponses : ImageArrives(r, parts)
    \/ \E r \in requests : ImageThrows(r)

Spec == Init /\ [][Next]_vars

\* Each vendor call eventually returns or throws: the analysis stream ends or throws,
\* the follow-up call resolves or rejects, the image call resolves or rejects.
StreamSettles == \E r \in requests : StreamEnd(r) \/ StreamThrows(r)

ReplySettles ==
    \E r \in requests : (\E response \in AppResponses : ReplyArrives(r, response))
                            \/ ReplyThrows(r)

ImageSettles ==
    \E r \in requests : (\E parts \in AppImageResponses : ImageArrives(r, parts))
                            \/ ImageThrows(r)

\* The steps of the App with at most MaxLiveStarted uploads and requests started.
NextLive ==
    \/ \E file \in Files : ProcessFile(file) /\ nstarted' <= MaxLiveStarted
    \/ \E u \in uploads : ReadDone(u)
    \/ \E u \in uploads : ReadFails(u)
    \/ HandleClearVideo
    \/ VideoReady
    \/ \E t \in UserInputs : SetInputText(t)
    \/ \E dt \in Elapsed : HandleStartAnalysis(dt) /\ nstarted' <= MaxLiveStarted
    \/ \E r \in requests, chunk \in AppChunks : StreamChunk(r, chunk)
    \/ \E r \in requests : StreamEnd(r)
    \/ \E r \in requests : StreamThrows(r)
    \/ \E dt1 \in Elapsed, dt2 \in {0, 1} :
          HandleSendMessage(dt1, dt2) /\ nstarted' <= MaxLiveStarted
    \/ \E r \in requests, response \in AppResponses : ReplyArrives(r, response)
    \/ \E r \in requests : ReplyThrows(r)
    \/ \E r \in requests, parts \in AppImageResponses : ImageArrives(r, parts)
    \/ \E r \in requests : ImageThrows(r)

SpecLive ==
    /\ Init /\ [][NextLive]_vars
    /\ WF_vars(StreamSettles) /\ WF_vars(ReplySettles) /\ WF_vars(ImageSettles)

-----------------------------------------------------------------------------
(* The service functions called directly, with inputs from bounded sets *)

SvcDurations == {k * 23 : k \in 0..MaxDurationSteps}

SvcMessages ==
    { <<"o","k">>,
      <<"L","o","o","k"," ","A","G","A","I","N","!">>,
      <<"p","l","s"," ","R","e","-","A","n","a","l","y","z","e">>,
      <<"a","n","a","l","y","z","e"," "," ","a","g","a","i","n">>,
      <<"U8BF7","U91CD","U770B">>,
      <<"U91CD","U65B0"," ","U5206","U6790">> }

SvcVideoData == {None, Some(<<"QUJD">>)}

SvcHistories ==
    { <<Spread(Placeholder(<<"8">>), [text |-> <<"A">>, isThinking |-> Some(FALSE)]),
        UserMessage(<<"9">>, <<"o","k">>)>> }

SvcChunks ==
    { [text |-> None, groundingChunks |-> None],
      [text |-> Some(<<>>), groundingChunks |-> Some(<<WebChunk("t1", "u1")>>)],
      [text |-> Some(<<"A">>), groundingChunks |-> None],
      [text |-> Some(<<"A">>), groundingChunks |-> Some(<<WebChunk("t1", "u1")>>)],
      [text |-> Some(<<"B">>),
       groundingChunks |-> Some(<<WebChunk("t2", "u1"), [web |-> None],
                                  WebChunk("t1", "u2")>>)],
      [text |-> None, groundingChunks |-> Some(<<[web |-> None]>>)] }

SvcPartKinds ==
    { TextPart(<<"R">>), CallPart("generateThumbnail", <<"P1">>),
      CallPart("generateThumbnail", <<"P2">>), CallPart("otherTool", <<"P3">>) }

SvcPartLists == UNION {[1..n -> SvcPartKinds] : n \in 0..MaxParts}

SvcResponses ==
    [parts : SvcPartLists, groundingChunks : {None}]
        \cup {[parts |-> <<TextPart(<<"R">>)>>,
               groundingChunks |-> Some(<<WebChunk("t1", "u1"), [web |-> None]>>)]}

CallFinished == IF svc.call = None THEN FALSE ELSE svc.call[1].pc \in {"returned", "thrown"}

\* What is kept of the call before the current one.
PromptOf(call) ==
    IF call = None THEN None
    ELSE Some([fn |-> call[1].fn, durationTenths |-> call[1].durationTenths,
               maxChars |-> call[1].maxChars])

InitService ==
    /\ videoState = NoVideo
    /\ videoEl = None
    /\ messages = <<>>
    /\ inputText = <<>>
    /\ isProcessing = FALSE
    /\ hasStartedAnalysis = FALSE
    /\ clock = ClockStart
    /\ uploads = {}
    /\ requests = {}
    /\ nstarted = 0
    /\ last = [op |-> "init"]
    /\ svc = NoCall

\* generateVideoCommentary is called: up to the await of generateContentStream.
CallCommentary(d) ==
    /\ svc.call = None
    /\ svc' = [prev |-> svc.prev,
               call |-> Some([fn |-> "generateVideoCommentary", durationTenths |-> d,
                              maxChars |-> CommentaryPrompt("style", FALSE, d).maxChars,
                              st |-> StreamStart, chunks |-> <<>>, onStream |-> <<>>,
                              pc |-> "stream", returned |-> None])]
    /\ UNCHANGED appVars

\* One iteration of the for-await loop.
SvcChunk(chunk) ==
    /\ svc.call # None /\ svc.call[1].fn = "generateVideoCommentary"
    /\ svc.call[1].pc = "stream"
    /\ Len(svc.call[1].chunks) < MaxChunks
    /\ svc' = [svc EXCEPT !.call =
                 Some([svc.call[1] EXCEPT
                         !.st = StreamStep(svc.call[1].st, chunk),
                         !.chunks = Append(svc.call[1].chunks, chunk),
                         !.onStream = Append(svc.call[1].onStream,
                                         OnStreamArgs(StreamStep(svc.call[1].st, chunk)))])]
    /\ UNCHANGED appVars

\* The stream ends: return fullText.
SvcStreamEnd ==
    /\ svc.call # None /\ svc.call[1].fn = "generateVideoCommentary"
    /\ svc.call[1].pc = "stream"
    /\ svc' = [svc EXCEPT !.call =
                 Some([svc.call[1] EXCEPT !.pc = "returned",
                                          !.returned = Some(svc.call[1].st.fullText)])]
    /\ UNCHANGED appVars

\* The vendor call or the stream throws: logged and rethrown.
SvcStreamThrows ==
    /\ svc.call # None /\ svc.call[1].fn = "generateVideoCommentary"
    /\ svc.call[1].pc = "stream"
    /\ svc' = [svc EXCEPT !.call = Some([svc.call[1] EXCEPT !.pc = "thrown"])]
    /\ UNCHANGED appVars

\* sendFollowUpMessage is called: up to the await of generateContent.
CallFollowUp(history, newMessage, base64VideoData, d) ==
    /\ svc.call = None
    /\ svc' = [prev |-> svc.prev,
               call |-> Some([fn |-> "sendFollowUpMessage", durationTenths |-> d,
                              maxChars |-> ContextPrompt(history, newMessage, d).maxChars,
                              newMessage |-> newMessage,
                              base64VideoData |-> base64VideoData,
                              parts |-> FollowUpParts(history, newMessage, base64VideoData,
                                                      VideoMp4, d),
                              pc |-> "reply", response |-> None, returned |-> None])]
    /\ UNCHANGED appVars

\* generateContent resolves: the value sendFollowUpMessage returns.
SvcReply(response) ==
    /\ svc.call # None /\ svc.call[1].fn = "sendFollowUpMessage"
    /\ svc.call[1].pc = "reply"
    /\ svc' = [svc EXCEPT !.call =
                 Some([svc.call[1] EXCEPT !.pc = "returned",
                                          !.response = Some(response),
                                          !.returned = Some(FollowUpResult(response))])]
    /\ UNCHANGED appVars

\* generateContent rejects: logged and rethrown.
SvcReplyThrows ==
    /\ svc.call # None /\ svc.call[1].fn = "sendFollowUpMessage"
    /\ svc.call[1].pc = "reply"
    /\ svc' = [svc EXCEPT !.call = Some([svc.call[1] EXCEPT !.pc = "thrown"])]
    /\ UNCHANGED appVars

\* The caller is done with a finished call and keeps the figures of its prompt.
ReleaseCall ==
    /\ CallFinished /\ svc.prev = None
    /\ svc' = [prev |-> PromptOf(svc.call), call |-> None]
    /\ UNCHANGED appVars

NextService ==
    \/ \E d \in SvcDurations : CallCommentary(d)
    \/ \E chunk \in SvcChunks : SvcChunk(chunk)
    \/ SvcStreamEnd
    \/ SvcStreamThrows
    \/ \E history \in SvcHistories, newMessage \in SvcMessages,
          base64VideoData \in SvcVideoData, d \in SvcDurations :
            CallFollowUp(history, newMessage, base64VideoData, d)
    \/ \E response \in SvcResponses : SvcReply(response)
    \/ SvcReplyThrows
    \/ ReleaseCall

SpecService == InitService /\ [][NextService]_vars

-----------------------------------------------------------------------------
(* Claims *)

UpdateOps == {"stream", "analysisError", "followUpDone", "followUpError"}

\* C1: every update a request issues (stream callback, success update, error update)
\* changes only messages whose id is the request's placeholder id; the other
\* messages, the length of the list and the order of the ids stay as they were.
C1_UpdateTouchesOnlyPlaceholder ==
    [][last'.op \in UpdateOps =>
          /\ Len(messages') = Len(messages)
          /\ \A i \in 1..Len(messages) :
                /\ messages'[i].id = messages[i].id
                /\ messages[i].id # last'.msgId => messages'[i] = messages[i]]_vars

\* A follow-up turn ended with a reply written into its placeholder, which stands
\* after the analysis' message and the user's message.
C1_Witness ==
    /\ last.op = "followUpDone"
    /\ Len(messages) >= 3
    /\ \E i \in 1..Len(messages) :
          /\ messages[i].id = last.msgId
          /\ messages[i].isThinking = Some(FALSE)
          /\ messages[i].text # <<>>
    /\ \E i \in 1..Len(messages) : messages[i].id # last.msgId

IsPrefix(a, b) == Len(a) <= Len(b) /\ SubSeq(b, 1, Len(a)) = a

SameIdsAndRoles(a, b) ==
    /\ Len(a) = Len(b)
    /\ \A i \in 1..Len(a) : a[i].id = b[i].id /\ a[i].role = b[i].role

\* C2: the message list changes only by an append at the end (one model placeholder
\* by handleStartAnalysis; a user message then a model placeholder by
\* handleSendMessage), by replacing messages in place with id, role and position
\* kept, or by the reset to the empty list of handleVideoSelected / handleClearVideo.
C2_ListChangesOnlyThreeWays ==
    [][\/ messages' = messages
       \/ /\ last'.op = "startAnalysis"
          /\ Len(messages') = Len(messages) + 1
          /\ IsPrefix(messages, messages')
          /\ messages'[Len(messages')].role = "model"
          /\ messages'[Len(messages')].isThinking = Some(TRUE)
       \/ /\ last'.op = "sendMessage"
          /\ Len(messages') = Len(messages) + 2
          /\ IsPrefix(messages, messages')
          /\ messages'[Len(messages) + 1].role = "user"
          /\ messages'[Len(messages) + 2].role = "model"
          /\ messages'[Len(messages) + 2].isThinking = Some(TRUE)
       \/ /\ last'.op \in UpdateOps
          /\ SameIdsAndRoles(messages, messages')
       \/ /\ last'.op \in {"videoSelected", "clearVideo"}
          /\ messages' = <<>>]_vars

\* handleSendMessage has just appended its two messages to a list that held some.
C2_Witness ==
    /\ last.op = "sendMessage" /\ last.sent
    /\ Len(messages) >= 3
    /\ messages[Len(messages)].id = last.msgId
    /\ messages[Len(messages) - 1].role = "user"

\* The texts of the chunks, joined in arrival order; a chunk without text adds nothing.
RECURSIVE JoinChunkTexts(_)
JoinChunkTexts(chunks) ==
    IF chunks = <<>> THEN <<>>
    ELSE JoinChunkTexts(SubSeq(chunks, 1, Len(chunks) - 1))
         \o (IF chunks[Len(chunks)].text = None THEN <<>> ELSE chunks[Len(chunks)].text[1])

\* C3: generateVideoCommentary calls onStream once per chunk, in arrival order; the
\* k-th call carries the joined texts of chunks 1..k, so each text extends the one
\* before it, and the value returned is the text of the last onStream call.
C3_StreamRelaysPrefixes ==
    (svc.call # None /\ svc.call[1].fn = "generateVideoCommentary") =>
        LET c == svc.call[1] IN
        /\ Len(c.onStream) = Len(c.chunks)
        /\ \A k \in 1..Len(c.onStream) :
              /\ c.onStream[k].text = JoinChunkTexts(SubSeq(c.chunks, 1, k))
              /\ k > 1 => IsPrefix(c.onStream[k - 1].text, c.onStream[k].text)
        /\ c.pc = "returned" =>
              /\ c.returned # None
              /\ c.returned[1] = JoinChunkTexts(c.chunks)
              /\ Len(c.onStream) > 0 => c.returned[1] = c.onStream[Len(c.onStream)].text

\* A stream of two chunks with different texts has been relayed and returned.
C3_Witness ==
    /\ svc.call # None
    /\ svc.call[1].fn = "generateVideoCommentary"
    /\ svc.call[1].pc = "returned"
    /\ Len(svc.call[1].onStream) = 2
    /\ svc.call[1].onStream[1].text = <<"B">>
    /\ svc.call[1].returned = Some(<<"B", "A">>)

IsFollowUpCall == IF svc.call = None THEN FALSE ELSE svc.call[1].fn = "sendFollowUpMessage"

IsCommentaryCall ==
    IF svc.call = None THEN FALSE ELSE svc.call[1].fn = "generateVideoCommentary"

\* The lower-cased message holds one of the seven keywords somewhere.
MentionsKeyword(m) ==
    LET lowered == ToLowerCase(m)
    IN  \E k \in 1..7 : \E i \in 1..Len(m) : \E j \in i..Len(m) :
            SubSeq(lowered, i, j) = ReAnalysisKeywords[k]

\* C4: sendFollowUpMessage attaches the video bytes exactly when the lower-cased
\* message holds one of the seven re-analysis keywords and the stored video data is
\* not null; otherwise the request carries only the text part built from the chat
\* history and the new message.
C4_VideoAttachedIffKeywordAndData ==
    IsFollowUpCall =>
        LET c == svc.call[1]
            textPart == c.parts[Len(c.parts)]
        IN
        /\ Len(ReAnalysisKeywords) = 7
        /\ DOMAIN textPart = {"text"}
        /\ textPart.text.instruction = c.newMessage
        /\ IF MentionsKeyword(c.newMessage) /\ c.base64VideoData # None
           THEN /\ Len(c.parts) = 2
                /\ DOMAIN c.parts[1] = {"inlineData"}
                /\ c.parts[1].inlineData.data = c.base64VideoData[1]
           ELSE Len(c.parts) = 1

\* A message with a keyword in mixed case was sent with video data stored.
C4_Witness ==
    /\ IsFollowUpCall
    /\ svc.call[1].newMessage = <<"p","l","s"," ","R","e","-","A","n","a","l","y","z","e">>
    /\ svc.call[1].base64VideoData # None
    /\ Len(svc.call[1].parts) = 2

FollowUpRequests == {r \in requests : r.kind = "followup"}

\* C5: in a follow-up turn generateAIImage is called at most once, and only when
\* the response carried a thumbnail tool call and captureCurrentFrame gave a frame;
\* its arguments are that frame and the model's visualPrompt; the bot message gets a
\* thumbnailUrl exactly when the call returned an image.
C5_ImageCallOnceWithFrameAndPrompt ==
    [][/\ \A r \in FollowUpRequests' :
             /\ r.imageCalls <= 1
             /\ r.imageCalls = 1 <=> r.pc = "image"
       /\ last'.op = "imageCall" =>
             \E r \in FollowUpRequests' :
                /\ r.msgId = last'.msgId /\ r.imageCalls = 1
                /\ r.result[1].thumbnailCall # None
                /\ CaptureCurrentFrame(videoEl) # None
                /\ CaptureCurrentFrame(videoEl)[1] # <<>>
                /\ r.imageArgs[1][1].inlineData.data = CaptureCurrentFrame(videoEl)[1]
                /\ r.imageArgs[1][2].text =
                      <<"Generate a high-quality vertical tennis video cover. ">>
                         \o r.result[1].thumbnailCall[1].visualPrompt
       /\ last'.op = "followUpDone" =>
             /\ last'.imageCalls <= 1
             /\ last'.imageCalls = 1 => last'.thumbnailCall # None
             /\ last'.imageResult # None => last'.imageCalls = 1
             /\ \A i \in 1..Len(messages') :
                   messages'[i].id = last'.msgId =>
                      (messages'[i].thumbnailUrl # None <=> last'.imageResult # None)]_vars

\* A follow-up turn ended after one image call that returned an image, now shown.
C5_Witness ==
    /\ last.op = "followUpDone"
    /\ last.imageCalls = 1
    /\ last.imageResult # None
    /\ \E i \in 1..Len(messages) :
          messages[i].id = last.msgId /\ messages[i].thumbnailUrl = last.imageResult

\* The file's type begins with 'video/' and it has at most 20 * 1024 * 1024 bytes.
AcceptableFile(f) ==
    /\ Len(f.type) >= 6
    /\ <<f.type[1], f.type[2], f.type[3], f.type[4], f.type[5], f.type[6]>>
          = <<"v","i","d","e","o","/">>
    /\ f.size <= 20971520

\* C6: processFile rejects a file that is no video or is larger than 20 MiB without
\* calling onVideoSelected, so the video state, the messages and hasStartedAnalysis
\* stay as they were; a file that passes and is read leads to one onVideoSelected
\* call with the file, a preview URL, its base64 data and its MIME type.
C6_ProcessFileValidates ==
    [][/\ \A u \in uploads' : AcceptableFile(u.file)
       /\ (last'.op = "processFile" /\ ~last'.accepted) =>
             UNCHANGED <<videoState, messages, hasStartedAnalysis, uploads>>
       /\ (last'.op = "processFile" /\ last'.accepted) =>
             /\ Cardinality(uploads') = Cardinality(uploads) + 1
             /\ UNCHANGED <<videoState, messages, hasStartedAnalysis>>
       /\ videoState' # videoState => last'.op \in {"videoSelected", "clearVideo"}
       /\ last'.op = "readFailed" => UNCHANGED <<videoState, messages, hasStartedAnalysis>>
       /\ last'.op = "videoSelected" =>
             \E u \in uploads :
                /\ uploads' = uploads \ {u}
                /\ u.uid = last'.uid
                /\ AcceptableFile(u.file)
                /\ videoState'.file = Some(u.file)
                /\ videoState'.previewUrl # None
                /\ videoState'.base64Data = Some(u.file.content)
                /\ videoState'.mimeType = u.file.type]_vars

\* A file was rejected while the read of an accepted one was still under way.
C6_Witness ==
    /\ last.op = "processFile" /\ ~last.accepted
    /\ uploads # {}

\* C7: when the analysis stream throws, also after chunks were relayed, the
\* placeholder ends with the fixed error text and isThinking = false; when a
\* follow-up's service call throws, its placeholder ends with the fixed
\* connection-error text and isThinking = false.
C7_ErrorUpdateWins ==
    /\ last.op = "analysisError" =>
          \A i \in 1..Len(messages) :
             messages[i].id = last.msgId =>
                /\ messages[i].text = <<"ANALYSIS_ERROR_TEXT">>
                /\ messages[i].isThinking = Some(FALSE)
    /\ last.op = "followUpError" =>
          \A i \in 1..Len(messages) :
             messages[i].id = last.msgId =>
                /\ messages[i].text = <<"CONNECTION_ERROR_TEXT">>
                /\ messages[i].isThinking = Some(FALSE)

\* The stream threw after a chunk had been relayed into the placeholder, which is
\* still in the list.
C7_Witness ==
    /\ last.op = "analysisError"
    /\ last.relayed >= 1
    /\ \E i \in 1..Len(messages) :
          messages[i].id = last.msgId /\ messages[i].text = AnalysisErrorText

\* The response's function calls named generateThumbnail, in part order.
ThumbnailCallsIn(response) ==
    SelectSeq(PartFunctionCalls(response.parts), LAMBDA fc : fc.name = "generateThumbnail")

\* C8: sendFollowUpMessage returns a thumbnailCall exactly when some part of the
\* response's first candidate holds a function call named generateThumbnail, and
\* the visualPrompt returned is that call's visualPrompt argument.
C8_ThumbnailCallIffToolCalled ==
    (IsFollowUpCall /\ svc.call[1].pc = "returned") =>
        LET c == svc.call[1]
            calls == ThumbnailCallsIn(c.response[1])
        IN
        /\ c.returned[1].thumbnailCall # None <=> calls # <<>>
        /\ c.returned[1].thumbnailCall # None =>
              \E i \in 1..Len(calls) :
                 c.returned[1].thumbnailCall[1].visualPrompt = calls[i].args.visualPrompt

\* The uris of the web entries of the chunks.
SeenUris(chunks) ==
    UNION { {ch.groundingChunks[1][j].web[1].uri :
                j \in {n \in 1..Len(ch.groundingChunks[1]) :
                          ch.groundingChunks[1][n].web # None}} :
            ch \in {chunks[i] : i \in {n \in 1..Len(chunks) :
                                          chunks[n].groundingChunks # None}} }

\* C9: the sources generateVideoCommentary passes to onStream never hold one uri
\* twice, hold an entry for every web uri of the chunks received so far, and are
\* undefined exactly when no web source has been seen yet.
C9_SourcesUniqueAndAccumulated ==
    IsCommentaryCall =>
        LET c == svc.call[1] IN
        \A k \in 1..Len(c.onStream) :
            LET srcs == c.onStream[k].groundingSources
                seen == SeenUris(SubSeq(c.chunks, 1, k))
            IN
            /\ srcs = None <=> seen = {}
            /\ srcs # None =>
                  /\ \A a, b \in 1..Len(srcs[1]) : a # b => srcs[1][a].uri # srcs[1][b].uri
                  /\ {srcs[1][a].uri : a \in 1..Len(srcs[1])} = seen
            /\ k > 1 => SeenUris(SubSeq(c.chunks, 1, k - 1)) \subseteq seen

\* The second chunk repeats a uri of the first and brings a new one: two sources.
C9_Witness ==
    /\ IsCommentaryCall
    /\ Len(svc.call[1].onStream) = 2
    /\ svc.call[1].onStream[1].groundingSources = Some(<<[title |-> "t1", uri |-> "u1"]>>)
    /\ svc.call[1].onStream[2].groundingSources # None
    /\ Len(svc.call[1].onStream[2].groundingSources[1]) = 2

\* max(20, floor(4.5 * duration)) for a duration of d tenths of a second
Budget(d) == IF (45 * d) \div 100 > 20 THEN (45 * d) \div 100 ELSE 20

\* C10: the character budget in the prompts of generateVideoCommentary and
\* sendFollowUpMessage is max(20, floor(4.5 * duration)): never below 20, 20 for
\* the duration 0, non-decreasing in the duration, and the same in both functions.
C10_BudgetFormula ==
    svc.call # None =>
        LET c == svc.call[1] IN
        /\ c.maxChars = Budget(c.durationTenths)
        /\ c.maxChars >= 20
        /\ c.durationTenths = 0 => c.maxChars = 20
        /\ svc.prev # None =>
              /\ svc.prev[1].durationTenths <= c.durationTenths
                    => svc.prev[1].maxChars <= c.maxChars
              /\ svc.prev[1].durationTenths = c.durationTenths
                    => svc.prev[1].maxChars = c.maxChars

\* Both functions were called with one duration that gives a budget above 20.
C10_Witness ==
    /\ svc.call # None /\ svc.prev # None
    /\ svc.prev[1].fn = "generateVideoCommentary"
    /\ svc.call[1].fn = "sendFollowUpMessage"
    /\ svc.prev[1].durationTenths = svc.call[1].durationTenths
    /\ svc.call[1].maxChars > 20

\* C11: at most one request (an analysis or a follow-up turn, its image step
\* included) is in flight at any time, and isProcessing is true whenever one is,
\* under every interleaving the UI permits; a request is started only when none is
\* in flight.
C11_OneRequestInFlight ==
    /\ Cardinality(requests) <= 1
    /\ requests # {} => isProcessing
    /\ (last.op = "startAnalysis" /\ last.started) =>
          requests = {r \in requests : r.kind = "analysis" /\ r.msgId = last.msgId}
    /\ (last.op = "sendMessage" /\ last.sent) =>
          requests = {r \in requests : r.kind = "followup" /\ r.msgId = last.msgId}

\* The video was replaced while a follow-up turn was in flight: the start button is
\* shown for the new file, and disabled.
C11_Witness ==
    /\ last.op = "videoSelected"
    /\ \E r \in requests : r.kind = "followup"
    /\ ~hasStartedAnalysis /\ videoState.file # None
    /\ isProcessing

StartOps == {"startAnalysis", "sendMessage"}

\* C12: once handleVideoSelected or handleClearVideo has emptied the list, no stream
\* callback, success update or error update of a request started before the reset
\* adds or changes a message: an update whose placeholder is gone leaves the list
\* as it is, and the emptied list gets its next message only from the start of a
\* new request.
C12_NoOutputAfterReset ==
    [][/\ (last'.op \in UpdateOps
            /\ \A i \in 1..Len(messages) : messages[i].id # last'.msgId) =>
              messages' = messages
       /\ (messages = <<>> /\ last'.op \notin StartOps) => messages' = <<>>
       /\ (messages = <<>> /\ requests # {}) =>
             {r.rid : r \in requests'} \subseteq {r.rid : r \in requests}]_vars

\* A follow-up turn ended after the video had been replaced while it was in
\* flight: the chat of the new video is empty.
C12_Witness ==
    /\ last.op = "followUpDone"
    /\ messages = <<>>
    /\ videoState.file # None
    /\ ~hasStartedAnalysis

\* C13: whenever handleStartAnalysis or handleSendMessage has finished and set
\* isProcessing back to false, no message of the list has isThinking = true.
C13_NoSpinnerWhenIdle ==
    ~isProcessing => \A i \in 1..Len(messages) : messages[i].isThinking # Some(TRUE)

\* C14: in every reachable state the ids of the messages of the list are pairwise
\* distinct.
C14_IdsPairwiseDistinct ==
    \A i, j \in 1..Len(messages) : i # j => messages[i].id # messages[j].id

\* C15: every request that is started is eventually followed by isProcessing =
\* false, whichever way its vendor calls end (success, a throwing stream, a
\* rejected follow-up call, a failed image generation), also when the video is
\* cleared or replaced while the request is in flight; each vendor call is assumed
\* to return or throw eventually.
C15_RequestEndsProcessing == (requests # {}) ~> ~isProcessing

\* A follow-up turn whose image generation failed has ended, the video having been
\* cleared while the turn was in flight: the app is idle again.
C15_Witness ==
    /\ last.op = "followUpDone"
    /\ last.imageCalls = 1 /\ last.imageResult = None
    /\ messages = <<>>
    /\ ~isProcessing /\ requests = {}

\* C16: when the thumbnail tool was called in a follow-up turn and either no frame
\* can be captured or the image generation fails, the turn ends as a normal reply:
\* the bot message holds the reply text with the matching failure note appended,
\* has no thumbnailUrl and isThinking = false; the outer error path with its
\* connection-error text is taken only when sendFollowUpMessage itself rejects.
C16_ThumbnailFailureIsNormalReply ==
    [][/\ (last'.op = "followUpDone" /\ last'.thumbnailCall # None
            /\ last'.imageResult = None) =>
             /\ last'.imageCalls = 0 =>
                   /\ ~TruthyString(CaptureCurrentFrame(videoEl))
                   /\ last'.text = last'.reply \o <<"\n", "\n", "(NO_FRAME_NOTE)">>
             /\ last'.imageCalls = 1 =>
                   /\ \E r \in requests : r.msgId = last'.msgId /\ r.pc = "image"
                   /\ last'.text = last'.reply \o <<"\n", "\n", "(IMAGE_FAILED_NOTE)">>
             /\ last'.reply # <<>>
             /\ \A i \in 1..Len(messages') :
                   messages'[i].id = last'.msgId =>
                      /\ messages'[i].text = last'.text
                      /\ messages'[i].text # <<"CONNECTION_ERROR_TEXT">>
                      /\ messages'[i].thumbnailUrl = None
                      /\ messages'[i].isThinking = Some(FALSE)
       /\ last'.op = "followUpError" =>
             \E r \in requests :
                r.msgId = last'.msgId /\ r.pc = "reply" /\ r.result = None]_vars

\* The image generation failed for a frame that had been captured: the bot message
\* shows the reply text with the note, and no image.
C16_Witness ==
    /\ last.op = "followUpDone"
    /\ last.thumbnailCall # None
    /\ last.imageCalls = 1 /\ last.imageResult = None
    /\ \E i \in 1..Len(messages) :
          /\ messages[i].id = last.msgId
          /\ messages[i].text = DesigningCoverText \o ImageFailedNote
          /\ messages[i].thumbnailUrl = None

=============================================================================
